---- MODULE Spec2Model ----
(***************************************************************************)
(* Telemetry analytics of HeatPumpDataQuery (src/data_query.py).           *)
(*                                                                         *)
(* The telemetry bucket, and every data frame queried from it, is a        *)
(* function from metric name to the set of its rows [time, value].         *)
(* Timestamps are whole minutes (the finest aggregateWindow the code asks  *)
(* for is 1m), and aggregation leaves at most one row per metric and       *)
(* timestamp.                                                              *)
(*                                                                         *)
(* Units: power in W, temperatures in tenths of a degree (the raw integer  *)
(* registers that query_metrics divides by 10.0), energy in watt-minutes   *)
(* (kWh * 60000).  Rounded result fields are kept as scaled integers; the  *)
(* scale is stated where the field is built.                               *)
(***************************************************************************)
EXTENDS Integers, Sequences, FiniteSets, TLC

VARIABLES
    bucket,   \* metric name -> set of rows: the aggregated content of self.bucket
    pc,       \* "ingest" while the telemetry source fills, "done" after a call
    call,     \* the operation invoked and its arguments
    result,   \* the value the operation returned
    locals    \* the operation's local variables at its return

vars == <<bucket, pc, call, result, locals>>

Metrics ==
    {"switch_valve_status", "power_consumption", "compressor_status",
     "additional_heat_percent", "brine_pump_status", "radiator_pump_status",
     "alarm_code", "alarm_status", "radiator_forward", "radiator_return",
     "brine_in_evaporator", "brine_out_condenser"}

EmptyFrame == [m \in Metrics |-> {}]

\* An optional value (a cell that may hold pandas NaN) is a set: NaN is the
\* empty set and a present value v is {v}.
NaN == {}
Some(v) == {v}

----------------------------------------------------------------------------
(* pandas helpers                                                          *)

Abs(x) == IF x < 0 THEN -x ELSE x

\* The sum of a function's values over its finite domain.
RECURSIVE SumFn(_)
SumFn(f) ==
    IF DOMAIN f = {} THEN 0
    ELSE LET x == CHOOSE y \in DOMAIN f : TRUE
         IN  f[x] + SumFn([y \in DOMAIN f \ {x} |-> f[y]])

\* query_metrics: the rows of the named metrics.  The division by 10.0 of the
\* metrics outside no_division_fields is the change of unit from the raw
\* register to tenths: those values are read as tenths from here on.
query_metrics(store, metric_names) ==
    [m \in Metrics |-> IF m \in metric_names THEN store[m] ELSE {}]

\* The local variables an operation leaves, without the return value.
Locals(out) == [k \in DOMAIN out \ {"ret"} |-> out[k]]

\* len(df)
RowCount(d) == SumFn([m \in Metrics |-> Cardinality(d[m])])

\* DataFrame.empty on the whole frame.
FrameEmpty(d) == \A m \in Metrics : d[m] = {}

\* df[df['name'] == name]
RowsOf(d, name) == d[name]

\* sort_values('_time'): the rows as a sequence ascending by time.
RECURSIVE sort_values(_)
sort_values(rows) ==
    IF rows = {} THEN <<>>
    ELSE LET first == CHOOSE r \in rows : \A q \in rows : r.time <= q.time
         IN  <<first>> \o sort_values(rows \ {first})

RECURSIVE SumSeq(_)
SumSeq(s) == IF s = <<>> THEN 0 ELSE Head(s) + SumSeq(Tail(s))

\* Series.shift(1): the predecessor's value, NaN for the first row.
shift(s) == [i \in 1..Len(s) |-> IF i = 1 THEN NaN ELSE Some(s[i - 1].value)]

\* Series.diff() on '_time' followed by fillna(0), in minutes.
time_diff(s) == [i \in 1..Len(s) |-> IF i = 1 THEN 0 ELSE s[i].time - s[i - 1].time]

\* round(): the integers nearest to num/den.  On an exact tie the binary
\* floating-point value decides, so both neighbours are possible outcomes.
RoundSet(num, den) ==
    LET q == num \div den
        r == num % den
    IN  IF 2 * r < den THEN {q}
        ELSE IF 2 * r > den THEN {q + 1}
        ELSE {q, q + 1}

----------------------------------------------------------------------------
(* Hot-water cycle detector                                                *)

MIN_CYCLE_DURATION_MINUTES_from_df == 10
MIN_CYCLE_DURATION_MINUTES == 5

ZeroCycles ==
    [total_cycles |-> 0, avg_cycle_duration_minutes |-> 0,
     avg_energy_per_cycle_kwh |-> 0, cycles_per_day |-> 0]

\* Mutant of cycles_start: every sample that reads 1 after another sample
\* starts a cycle, whatever the sample before it read.
cycles_start_level(valve) ==
    LET prev_value == shift(valve)
        idx == {i \in 1..Len(valve) : valve[i].value = 1 /\ prev_value[i] # NaN}
    IN  [k \in 1..Cardinality(idx) |->
            valve[CHOOSE i \in idx : Cardinality({j \in idx : j < i}) = k - 1].time]

\* valve_df[(valve_df['_value'] == 1) & (valve_df['prev_value'] == 0)]['_time']
cycles_start(valve) ==
    LET prev_value == shift(valve)
        idx == {i \in 1..Len(valve) : valve[i].value = 1 /\ prev_value[i] = Some(0)}
    IN  [k \in 1..Cardinality(idx) |->
            valve[CHOOSE i \in idx : Cardinality({j \in idx : j < i}) = k - 1].time]

\* Mutant of end_times: the closing 0 is looked for in the whole series.
end_times_anywhere(valve, start_time) ==
    SelectSeq(valve, LAMBDA r : r.value = 0)

\* after_start[after_start['_value'] == 0] with after_start the rows later
\* than start_time: in valve's order.
end_times(valve, start_time) ==
    SelectSeq(valve, LAMBDA r : r.time > start_time /\ r.value = 0)

\* Mutant of energy_kwh: each reading is held until the next one arrives.
energy_kwh_forward(power) ==
    SumSeq([i \in 1..Len(power) |->
              IF i = Len(power) THEN 0
              ELSE power[i].value * (power[i + 1].time - power[i].time)])

\* Mutant of energy_kwh: a fixed sampling interval of one minute is assumed.
energy_kwh_fixed_rate(power) ==
    SumSeq([i \in 1..Len(power) |-> IF i = 1 THEN 0 ELSE power[i].value])

\* The energy of a power series or of one slice of it, in watt-minutes:
\* sum of _value * time_diff, the first row's time_diff filled with 0.
energy_kwh(power) ==
    LET d == time_diff(power)
    IN  SumSeq([i \in 1..Len(power) |-> power[i].value * d[i]])

\* power_df[(power_df['_time'] >= start_time) & (power_df['_time'] <= end_time)]
cycle_power(power, start_time, end_time) ==
    SelectSeq(power, LAMBDA r : r.time >= start_time /\ r.time <= end_time)

\* Mutant of too_short: a cycle lasting exactly the threshold is rejected.
too_short_inclusive(duration_minutes, min_minutes) == duration_minutes <= min_minutes

\* if duration_minutes < MIN_CYCLE_DURATION_MINUTES: filtered, else kept.
too_short(duration_minutes, min_minutes) == duration_minutes < min_minutes

EmptyAcc ==
    [cycle_durations |-> <<>>, cycle_energies |-> <<>>, filtered_count |-> 0,
     pairs |-> <<>>, unterminated |-> <<>>]

\* One pass of "for start_time in cycles_start['_time']".
RECURSIVE cycle_loop(_, _, _, _, _)
cycle_loop(valve, power, starts, min_minutes, acc) ==
    IF starts = <<>> THEN acc
    ELSE
      LET start_time == Head(starts)
          ends == end_times(valve, start_time)
      IN  IF ends = <<>>
          THEN cycle_loop(valve, power, Tail(starts), min_minutes,
                 [acc EXCEPT !.unterminated = Append(@, start_time)])
          ELSE
            LET end_time == ends[1].time
                duration_minutes == end_time - start_time
                acc1 == [acc EXCEPT !.pairs = Append(@, <<start_time, end_time>>)]
            IN  IF too_short(duration_minutes, min_minutes)
                THEN cycle_loop(valve, power, Tail(starts), min_minutes,
                       [acc1 EXCEPT !.filtered_count = @ + 1])
                ELSE cycle_loop(valve, power, Tail(starts), min_minutes,
                       [acc1 EXCEPT
                          !.cycle_durations = Append(@, duration_minutes),
                          !.cycle_energies =
                              IF cycle_power(power, start_time, end_time) = <<>>
                              THEN @
                              ELSE Append(@, energy_kwh(
                                     cycle_power(power, start_time, end_time)))])

\* Mutant of cycles_per_day: the cycles are spread over the nominal 7 days
\* of the default time range.
cycles_per_day_nominal(num_valid_cycles, span) ==
    RoundSet(num_valid_cycles * 14400, 7 * 1440)

\* round(num_valid_cycles / total_days, 1) if total_days > 0 else 0, in
\* tenths of a cycle per day, for a span of the valve series in minutes.
cycles_per_day(num_valid_cycles, span) ==
    IF span > 0 THEN RoundSet(num_valid_cycles * 14400, span) ELSE {0}

\* The body shared by analyze_hot_water_cycles_from_df and
\* analyze_hot_water_cycles, which differ in the threshold only: the local
\* variables at the return, and in ret the values the return can produce.
hot_water_cycles(d, min_minutes) ==
    LET valve == sort_values(RowsOf(d, "switch_valve_status"))
        power == sort_values(RowsOf(d, "power_consumption"))
        starts == cycles_start(valve)
        acc == cycle_loop(valve, power, starts, min_minutes, EmptyAcc)
        num_valid_cycles == Len(acc.cycle_durations)
        span == valve[Len(valve)].time - valve[1].time
        early(why) == [EmptyAcc EXCEPT !.pairs = <<>>] @@
                      [exit |-> why, num_cycles |-> 0, ret |-> {ZeroCycles}]
    IN  IF FrameEmpty(d) THEN early("df.empty")
        ELSE IF valve = <<>> THEN early("valve_df.empty")
        ELSE IF Len(starts) = 0 THEN early("num_cycles == 0")
        ELSE IF num_valid_cycles = 0
        THEN acc @@ [exit |-> "num_valid_cycles == 0", num_cycles |-> Len(starts),
                     ret |-> {ZeroCycles}]
        ELSE acc @@
             [exit |-> "summary", num_cycles |-> Len(starts),
              ret |->
                { [total_cycles |-> num_valid_cycles,
                   \* round(avg_duration, 1): tenths of a minute
                   avg_cycle_duration_minutes |-> a,
                   \* round(avg_energy_kwh, 2): hundredths of a kWh
                   avg_energy_per_cycle_kwh |-> e,
                   \* round(cycles_per_day, 1): tenths of a cycle per day
                   cycles_per_day |-> c] :
                  a \in RoundSet(10 * SumSeq(acc.cycle_durations), num_valid_cycles),
                  e \in IF acc.cycle_energies = <<>> THEN {0}
                        ELSE RoundSet(SumSeq(acc.cycle_energies),
                                      600 * Len(acc.cycle_energies)),
                  c \in cycles_per_day(num_valid_cycles, span) }]

----------------------------------------------------------------------------
(* Energy and cost                                                         *)

ZeroEnergy == [total_kwh |-> 0, total_cost |-> 0, avg_power |-> 0, peak_power |-> 0]

SeqMax(s) == CHOOSE x \in {s[i] : i \in 1..Len(s)} : \A i \in 1..Len(s) : s[i] <= x

\* calculate_energy_costs on the frame d that query_metrics returned for
\* power_consumption: the locals at the return, and in ret the values the
\* return can produce.
energy_costs(d, price_per_kwh) ==
    LET power == sort_values(RowsOf(d, "power_consumption"))
        total_kwh == energy_kwh(power)
        values == [i \in 1..Len(power) |-> power[i].value]
    IN  IF FrameEmpty(d) THEN [exit |-> "df.empty", ret |-> {ZeroEnergy}]
        ELSE [exit |-> "costs",
              total_kwh |-> total_kwh,
              ret |->
                { [\* round(total_kwh, 2): hundredths of a kWh
                   total_kwh |-> k,
                   \* round(total_kwh * price_per_kwh, 2): hundredths
                   total_cost |-> c,
                   \* round(mean, 0) and round(max, 0): W
                   avg_power |-> a,
                   peak_power |-> SeqMax(values)] :
                  k \in RoundSet(total_kwh, 600),
                  c \in RoundSet(total_kwh * price_per_kwh, 600),
                  a \in RoundSet(SumSeq(values), Len(values)) }]

----------------------------------------------------------------------------
(* Duty-cycle runtime                                                      *)

\* Mutant of ZeroRuntime: the zeroed result lacks total_hours.
ZeroRuntime_partial ==
    [compressor_runtime_hours |-> 0, compressor_runtime_percent |-> 0,
     aux_heater_runtime_hours |-> 0, aux_heater_runtime_percent |-> 0]

ZeroRuntime ==
    [compressor_runtime_hours |-> 0, compressor_runtime_percent |-> 0,
     aux_heater_runtime_hours |-> 0, aux_heater_runtime_percent |-> 0,
     total_hours |-> 0]

\* (df['_time'].max() - df['_time'].min()).total_seconds() over every row.
total_seconds(d) ==
    LET times == UNION {{r.time : r \in d[m]} : m \in Metrics}
    IN  60 * ((CHOOSE t \in times : \A u \in times : u <= t)
              - (CHOOSE t \in times : \A u \in times : t <= u))

\* Mutant of runtime_seconds: the final sample is not extrapolated.
runtime_seconds_without_last(rows) ==
    LET s == sort_values(rows)
    IN  SumSeq([i \in 1..(Len(s) - 1) |->
                  IF s[i].value > 0 THEN 60 * (s[i + 1].time - s[i].time) ELSE 0])

\* The seconds one status series was active: the loop over range(len - 1),
\* then the final sample with the interval that precedes it.
runtime_seconds(rows) ==
    LET s == sort_values(rows)
        n == Len(s)
        loop == SumSeq([i \in 1..(n - 1) |->
                          IF s[i].value > 0
                          THEN 60 * (s[i + 1].time - s[i].time) ELSE 0])
        avg_interval == 60 * (s[n].time - s[n - 1].time)
    IN  IF n > 1 /\ s[n].value > 0 THEN loop + avg_interval ELSE loop

\* calculate_runtime_stats on the frame d that query_metrics returned.
runtime_stats(d) ==
    LET total == total_seconds(d)
        comp_runtime_seconds == runtime_seconds(RowsOf(d, "compressor_status"))
        aux_runtime_seconds == runtime_seconds(RowsOf(d, "additional_heat_percent"))
    IN  IF FrameEmpty(d) THEN [exit |-> "df.empty", ret |-> {ZeroRuntime}]
        ELSE IF total = 0 THEN [exit |-> "total_hours == 0", ret |-> {ZeroRuntime}]
        ELSE [exit |-> "stats",
              total_seconds |-> total,
              comp_runtime_seconds |-> comp_runtime_seconds,
              aux_runtime_seconds |-> aux_runtime_seconds,
              ret |->
                { [\* round(hours, 1): tenths of an hour
                   compressor_runtime_hours |-> ch,
                   \* round(percent, 1): tenths of a percent
                   compressor_runtime_percent |-> cp,
                   aux_heater_runtime_hours |-> ah,
                   aux_heater_runtime_percent |-> ap,
                   total_hours |-> th] :
                  ch \in RoundSet(comp_runtime_seconds, 360),
                  cp \in RoundSet(1000 * comp_runtime_seconds, total),
                  ah \in RoundSet(aux_runtime_seconds, 360),
                  ap \in RoundSet(1000 * aux_runtime_seconds, total),
                  th \in RoundSet(total, 360) }]

----------------------------------------------------------------------------
(* COP estimate                                                            *)

cop_metrics ==
    {"radiator_forward", "radiator_return", "brine_in_evaporator",
     "brine_out_condenser", "power_consumption", "compressor_status"}

\* pd.DataFrame(): no columns, no rows.
EmptyDataFrame == [columns |-> {}, rows |-> <<>>]

\* A comparison with NaN is False.
Gt(cell, k) == \E x \in cell : x > k

\* Column arithmetic: NaN where either operand is NaN.
Minus(a, b) == {x - y : x \in a, y \in b}

\* Mutant of cop_mask: the compressor state is not looked at.
cop_mask_any_state(compressor_status, brine_delta, radiator_delta) ==
    Gt(brine_delta, 5) /\ Gt(radiator_delta, 5)

\* (compressor_status > 0) & (brine_delta > 0.5) & (radiator_delta > 0.5),
\* the deltas in tenths of a degree.
cop_mask(compressor_status, brine_delta, radiator_delta) ==
    Gt(compressor_status, 0) /\ Gt(brine_delta, 5) /\ Gt(radiator_delta, 5)

\* A COP value is the fraction num/den, den > 0.
\* 2.0 + radiator_delta / brine_delta
cop_raw(radiator_delta, brine_delta) ==
    [num |-> 2 * brine_delta + radiator_delta, den |-> brine_delta]

\* Mutant of cop_clip: the estimate is not clamped.
cop_clip_missing(cop) == cop

\* Series.clip(1.5, 6.0)
cop_clip(cop) ==
    IF 2 * cop.num < 3 * cop.den THEN [num |-> 3, den |-> 2]
    ELSE IF cop.num > 6 * cop.den THEN [num |-> 6, den |-> 1]
    ELSE cop

\* pivot_table(index='_time', columns='name', values='_value', aggfunc='mean')
\* followed by reset_index(): one row per timestamp, one column per metric
\* that has a row, NaN where the metric has none at that timestamp.
pivot_table(d) ==
    LET columns == {m \in Metrics : d[m] # {}}
        times == UNION {{r.time : r \in d[m]} : m \in Metrics}
        index == sort_values({[time |-> t] : t \in times})
        cell(m, t) ==
            LET rs == {r \in d[m] : r.time = t}
            IN  IF rs = {} THEN NaN
                ELSE Some(SumFn([r \in rs |-> r.value]) \div Cardinality(rs))
    IN  [columns |-> columns,
         rows |-> [i \in 1..Len(index) |->
                     [c \in columns \cup {"_time"} |->
                        IF c = "_time" THEN index[i].time
                        ELSE cell(c, index[i].time)]]]

\* The frame with one more column computed row by row.
WithColumn(frame, name, F(_)) ==
    [columns |-> frame.columns \cup {name},
     rows |-> [i \in 1..Len(frame.rows) |->
                 [c \in DOMAIN frame.rows[i] \cup {name} |->
                    IF c = name THEN F(frame.rows[i]) ELSE frame.rows[i][c]]]]

\* calculate_cop_from_df
cop_from_df(d) ==
    LET df_filtered == query_metrics(d, cop_metrics)
        df_pivot == pivot_table(df_filtered)
        has_radiator == {"radiator_forward", "radiator_return"} \subseteq df_pivot.columns
        has_brine == {"brine_in_evaporator", "brine_out_condenser"}
                        \subseteq df_pivot.columns
        with_radiator ==
            IF has_radiator
            THEN WithColumn(df_pivot, "radiator_delta",
                   LAMBDA row : Minus(row["radiator_forward"], row["radiator_return"]))
            ELSE df_pivot
        with_brine ==
            IF has_brine
            THEN WithColumn(with_radiator, "brine_delta",
                   LAMBDA row : Minus(row["brine_in_evaporator"],
                                      row["brine_out_condenser"]))
            ELSE with_radiator
        \* df_pivot.get('compressor_status', 0)
        state(row) == IF "compressor_status" \in df_pivot.columns
                      THEN row["compressor_status"] ELSE Some(0)
        estimated_cop(row) ==
            IF cop_mask(state(row), row["brine_delta"], row["radiator_delta"])
            THEN {cop_clip(cop_raw(rd, bd)) :
                    rd \in row["radiator_delta"], bd \in row["brine_delta"]}
            ELSE NaN
    IN  IF FrameEmpty(d) THEN EmptyDataFrame
        ELSE IF FrameEmpty(df_filtered) THEN EmptyDataFrame
        ELSE IF has_radiator /\ has_brine
        THEN WithColumn(with_brine, "estimated_cop", estimated_cop)
        ELSE with_brine

----------------------------------------------------------------------------
(* Event log                                                               *)

\* The metrics get_event_log queries, in the order of its loop.
event_metrics ==
    <<"compressor_status", "brine_pump_status", "radiator_pump_status",
      "switch_valve_status", "additional_heat_percent", "alarm_code">>

\* self.alarm_codes, the provider's table of known codes.
alarm_codes == (1 :> "Hogtryckspressostat") @@ (2 :> "Lagtryckspressostat")

\* An event: the icon is left out, the text is in ASCII, and the number or
\* the description the text is formatted with is kept apart in detail.
Event(timestamp, text, severity, detail) ==
    [time |-> timestamp, event |-> text, type |-> severity, detail |-> detail]

\* Mutant of OnOff: the level of the signal is reported, not its edges.
OnOff_level(current, previous, timestamp, on, off) ==
    IF current > 0 THEN <<Event(timestamp, on, "info", NaN)>>
    ELSE IF current = 0 /\ previous > 0 THEN <<Event(timestamp, off, "info", NaN)>>
    ELSE <<>>

OnOff(current, previous, timestamp, on, off) ==
    IF current > 0 /\ previous = 0 THEN <<Event(timestamp, on, "info", NaN)>>
    ELSE IF current = 0 /\ previous > 0 THEN <<Event(timestamp, off, "info", NaN)>>
    ELSE <<>>

\* Mutant of alarm_desc: a code the table does not know is not named.
alarm_desc_unnamed(current) ==
    IF current \in DOMAIN alarm_codes THEN Some(alarm_codes[current])
    ELSE Some(<<"Kod">>)

\* self.alarm_codes.get(int(current), f"Kod {int(current)}"), on whole codes.
alarm_desc(current) ==
    IF current \in DOMAIN alarm_codes THEN Some(alarm_codes[current])
    ELSE Some(<<"Kod", current>>)

\* int(current) of an auxiliary-heat reading. A reading is a mean over one
\* minute and need not be whole: it is held in half percents here, and int
\* cuts the half off.
int(current) == current \div 2

\* Mutant of aux_changed: a change of exactly 10 points counts too.
aux_changed_inclusive(current, previous) ==
    current > 0 /\ previous > 0 /\ Abs(current - previous) >= 20

\* current > 0 and previous > 0 and abs(current - previous) > 10, on readings
\* in half percents.
aux_changed(current, previous) ==
    current > 0 /\ previous > 0 /\ Abs(current - previous) > 20

\* Mutant of valve_events: a cycle start is reported at every sample that
\* reads 1.
valve_events_level(current, previous, timestamp) ==
    IF current = 1
    THEN <<Event(timestamp, "Varmvattencykel START", "info", NaN)>>
    ELSE IF current = 0 /\ previous = 1
    THEN <<Event(timestamp, "Varmvattencykel STOPP", "info", NaN)>>
    ELSE <<>>

\* The branch of the switch valve.
valve_events(current, previous, timestamp) ==
    IF current = 1 /\ previous = 0
    THEN <<Event(timestamp, "Varmvattencykel START", "info", NaN)>>
    ELSE IF current = 0 /\ previous = 1
    THEN <<Event(timestamp, "Varmvattencykel STOPP", "info", NaN)>>
    ELSE <<>>

\* The if/elif chain of one row: the events it appends.
row_events(metric, current, previous, timestamp) ==
    CASE metric = "compressor_status" ->
           OnOff(current, previous, timestamp, "Kompressor PA", "Kompressor AV")
      [] metric = "brine_pump_status" ->
           OnOff(current, previous, timestamp, "Koldbararpump PA", "Koldbararpump AV")
      [] metric = "radiator_pump_status" ->
           OnOff(current, previous, timestamp, "Radiatorpump PA", "Radiatorpump AV")
      [] metric = "switch_valve_status" ->
           valve_events(current, previous, timestamp)
      [] metric = "additional_heat_percent" ->
           IF current > 0 /\ previous = 0
           THEN <<Event(timestamp, "Tillsattsvarme PA", "warning",
                        Some(int(current)))>>
           ELSE IF current = 0 /\ previous > 0
           THEN <<Event(timestamp, "Tillsattsvarme AV", "info", NaN)>>
           ELSE IF aux_changed(current, previous)
           THEN <<Event(timestamp, "Tillsattsvarme andrad till", "warning",
                        Some(int(current)))>>
           ELSE <<>>
      [] metric = "alarm_code" ->
           IF current > 0 /\ previous = 0
           THEN <<Event(timestamp, "LARM", "danger", alarm_desc(current))>>
           ELSE IF current = 0 /\ previous > 0
           THEN <<Event(timestamp, "Larm aterstallt", "success", NaN)>>
           ELSE <<>>

RECURSIVE Flatten(_)
Flatten(ss) == IF ss = <<>> THEN <<>> ELSE Head(ss) \o Flatten(Tail(ss))

\* The events of one metric: its rows in time order, each compared with
\* prev_value; a row without one is skipped.
metric_events(metric, rows) ==
    LET s == sort_values(rows)
        prev_value == shift(s)
    IN  Flatten([i \in 1..Len(s) |->
                   IF prev_value[i] = NaN THEN <<>>
                   ELSE row_events(metric, s[i].value,
                                   CHOOSE x \in prev_value[i] : TRUE, s[i].time)])

\* Mutant of sorted_events: the oldest event comes first.
RECURSIVE sorted_events_ascending(_)
sorted_events_ascending(events) ==
    IF events = <<>> THEN <<>>
    ELSE LET i == CHOOSE j \in 1..Len(events) :
                    /\ \A k \in 1..Len(events) : events[k].time >= events[j].time
                    /\ \A k \in 1..(j - 1) : events[k].time # events[j].time
         IN  <<events[i]>> \o sorted_events_ascending(
                 SubSeq(events, 1, i - 1) \o SubSeq(events, i + 1, Len(events)))

\* sorted(events, key=lambda x: x['time'], reverse=True): descending by
\* time, events of equal time in the order they were appended.
RECURSIVE sorted_events(_)
sorted_events(events) ==
    IF events = <<>> THEN <<>>
    ELSE LET i == CHOOSE j \in 1..Len(events) :
                    /\ \A k \in 1..Len(events) : events[k].time <= events[j].time
                    /\ \A k \in 1..(j - 1) : events[k].time # events[j].time
         IN  <<events[i]>> \o sorted_events(
                 SubSeq(events, 1, i - 1) \o SubSeq(events, i + 1, Len(events)))

\* events[:limit]
slice_to(events, limit) ==
    IF limit >= 0
    THEN SubSeq(events, 1, IF limit < Len(events) THEN limit ELSE Len(events))
    ELSE SubSeq(events, 1, Len(events) + limit)

\* get_event_log: each metric is queried on its own at 1m aggregation.
event_log(store, limit) ==
    LET events == Flatten([i \in 1..Len(event_metrics) |->
                             metric_events(event_metrics[i], store[event_metrics[i]])])
    IN  [events |-> events, ret |-> {slice_to(sorted_events(events), limit)}]

----------------------------------------------------------------------------
(* Aggregation windows                                                     *)

\* A time range is a string, held as the sequence of its characters.
digit_value ==
    ("0" :> 0) @@ ("1" :> 1) @@ ("2" :> 2) @@ ("3" :> 3) @@ ("4" :> 4) @@
    ("5" :> 5) @@ ("6" :> 6) @@ ("7" :> 7) @@ ("8" :> 8) @@ ("9" :> 9)

\* time_range.endswith(suffix)
endswith(time_range, suffix) ==
    Len(time_range) > 0 /\ time_range[Len(time_range)] = suffix

\* time_range[:-1]
but_last(time_range) == SubSeq(time_range, 1, Len(time_range) - 1)

\* int(text) on a string of digits, dots and letters: the number a
\* non-empty string of digits writes, and no value (a ValueError) for any
\* other string.
RECURSIVE int_of(_)
int_of(text) ==
    IF text = <<>> \/ \E i \in 1..Len(text) : text[i] \notin DOMAIN digit_value
    THEN NaN
    ELSE IF Len(text) = 1 THEN Some(digit_value[text[1]])
    ELSE LET high == CHOOSE n \in int_of(but_last(text)) : TRUE
         IN  Some(10 * high + digit_value[text[Len(text)]])

\* What a call leaves: the value it returned or the exception it raised.
Returned(value) == [raised |-> "none", value |-> value]
Raised(exception) == [raised |-> exception, value |-> "none"]

\* Mutant of hour_window: the range of exactly 6 hours falls into the next
\* band.
hour_window_early(hours) ==
    IF hours <= 1 THEN "1m"
    ELSE IF hours < 6 THEN "3m"
    ELSE IF hours <= 24 THEN "5m"
    ELSE "15m"

\* The bands of _get_aggregation_window for a range in hours.
hour_window(hours) ==
    IF hours <= 1 THEN "1m"
    ELSE IF hours <= 6 THEN "3m"
    ELSE IF hours <= 24 THEN "5m"
    ELSE "15m"

\* The bands of _get_aggregation_window for a range in days.
day_window(days) ==
    IF days <= 1 THEN "5m"
    ELSE IF days <= 7 THEN "30m"
    ELSE IF days <= 30 THEN "2h"
    ELSE "6h"

\* _get_aggregation_window(time_range)
aggregation_window(time_range) ==
    IF endswith(time_range, "h")
    THEN LET hours == int_of(but_last(time_range))
         IN  IF hours = NaN THEN Raised("ValueError")
             ELSE Returned(hour_window(CHOOSE n \in hours : TRUE))
    ELSE IF endswith(time_range, "d")
    THEN LET days == int_of(but_last(time_range))
         IN  IF days = NaN THEN Raised("ValueError")
             ELSE Returned(day_window(CHOOSE n \in days : TRUE))
    ELSE Returned("5m")

\* _get_cop_aggregation_window(time_range)
cop_aggregation_window(time_range) ==
    IF endswith(time_range, "h")
    THEN LET hours == int_of(but_last(time_range))
         IN  IF hours = NaN THEN Raised("ValueError")
             ELSE LET n == CHOOSE k \in hours : TRUE
                  IN  Returned(IF n <= 1 THEN "1m"
                               ELSE IF n <= 6 THEN "2m"
                               ELSE IF n <= 24 THEN "5m"
                               ELSE "10m")
    ELSE IF endswith(time_range, "d")
    THEN LET days == int_of(but_last(time_range))
         IN  IF days = NaN THEN Raised("ValueError")
             ELSE LET n == CHOOSE k \in days : TRUE
                  IN  Returned(IF n <= 1 THEN "5m"
                               ELSE IF n <= 7 THEN "10m"
                               ELSE IF n <= 30 THEN "10m"
                               ELSE "1h")
    ELSE Returned("5m")

\* What query_api.query_data_frame does with a query: it returns the rows
\* or it raises (the source is down, times out or rejects the query).
Upstream == {"returns", "raises"}

\* No aggregation_window argument given (None).
None == NaN

\* query_metrics with its try/except: the window is chosen from the time
\* range unless one is given, and whatever is raised on the way, by int() or
\* by the source, is logged and answered with an empty frame.
try_query_metrics(store, metric_names, time_range, given_window, upstream) ==
    LET window == IF given_window = None THEN aggregation_window(time_range)
                  ELSE Returned(CHOOSE w \in given_window : TRUE)
    IN  IF window.raised # "none" THEN EmptyFrame
        ELSE IF upstream = "raises" THEN EmptyFrame
        ELSE query_metrics(store, metric_names)

\* calculate_cop before calculate_cop_from_df: the COP window is chosen
\* inside calculate_cop's own try/except, which answers with an empty
\* frame.
try_query_cop(store, time_range, upstream) ==
    LET cop_aggregation == cop_aggregation_window(time_range)
    IN  IF cop_aggregation.raised # "none"
        THEN [exit |-> "except", frame |-> EmptyFrame]
        ELSE [exit |-> "df_pivot",
              frame |-> try_query_metrics(store,
                            cop_metrics \cup {"power_consumption"}, time_range,
                            Some(cop_aggregation.value), upstream)]

\* get_event_log with its try/except: a query that raises is logged and
\* answered with an empty list, whatever was detected before it.
try_event_log(store, limit, upstream) ==
    IF upstream = "raises" THEN [events |-> <<>>, ret |-> {<<>>}]
    ELSE event_log(store, limit)

----------------------------------------------------------------------------
(* Alarm status                                                            *)

\* range(start: -1h) of get_latest_values and range(start: -7d) of
\* get_alarm_status, in minutes.
latest_range == 60
alarm_range == 7 * 24 * 60

\* The rows of the last `minutes` before now.
range(rows, now, minutes) == {r \in rows : now - minutes <= r.time /\ r.time <= now}

\* last(): the latest of the rows, if there is one.
last(rows) ==
    IF rows = {} THEN NaN
    ELSE Some(CHOOSE r \in rows : \A q \in rows : q.time <= r.time)

\* get_latest_values: the last value of every metric within the hour, and
\* nothing at all when the query raises.
latest_values(store, now, upstream) ==
    [m \in Metrics |->
        IF upstream = "raises" THEN NaN
        ELSE last(range(store[m], now, latest_range))]

\* latest.get(name, {}).get('value', 0)
value_or_zero(latest, name) ==
    IF latest[name] = NaN THEN 0 ELSE (CHOOSE r \in latest[name] : TRUE).value

\* The record in the except branch of get_alarm_status.
NoAlarm ==
    [is_alarm |-> FALSE, alarm_code |-> 0, alarm_description |-> <<"Inget larm">>,
     alarm_time |-> NaN, alarm_status_raw |-> 0]

\* The query for the alarm time: of the alarm codes of the last 7 days,
\* those above 0, and of these the last.
alarm_time_query(store, now) ==
    last({r \in range(store["alarm_code"], now, alarm_range) : r.value > 0})

\* get_alarm_status at the time now; alarm codes are whole numbers.
alarm_status_at(store, now, upstream_latest, upstream_alarm) ==
    LET latest == latest_values(store, now, upstream_latest)
        alarm_status == value_or_zero(latest, "alarm_status")
        alarm_code == value_or_zero(latest, "alarm_code")
        is_alarm == alarm_status > 0 \/ alarm_code > 0
        alarm_description ==
            IF alarm_code \in DOMAIN alarm_codes THEN alarm_codes[alarm_code]
            ELSE <<"Okand larmkod", alarm_code>>
        found == alarm_time_query(store, now)
        alarm_time == IF is_alarm /\ found # NaN
                      THEN Some((CHOOSE r \in found : TRUE).time)
                      ELSE NaN
    IN  IF is_alarm /\ upstream_alarm = "raises" THEN NoAlarm
        ELSE [is_alarm |-> is_alarm,
              alarm_code |-> alarm_code,
              alarm_description |-> alarm_description,
              alarm_time |-> alarm_time,
              alarm_status_raw |-> alarm_status]

----------------------------------------------------------------------------
(* Analyses of one fetched batch                                           *)

\* The two handlers that take a pre-fetched frame.
from_df_handlers == {"calculate_cop_from_df", "analyze_hot_water_cycles_from_df"}

\* What a handler returns on the frame df. round() is a function: the same
\* value rounds the same way in every call, whichever way that is.
from_df_result(handler, df) ==
    IF handler = "calculate_cop_from_df" THEN cop_from_df(df)
    ELSE CHOOSE r \in hot_water_cycles(df, MIN_CYCLE_DURATION_MINUTES_from_df).ret :
            TRUE

\* Mutant of df_after: the cycle detector narrows the caller's frame to its
\* own two metrics instead of a copy of it.
df_after_narrowed(handler, df) ==
    IF handler = "analyze_hot_water_cycles_from_df"
    THEN [m \in Metrics |->
            IF m \in {"switch_valve_status", "power_consumption"} THEN df[m]
            ELSE {}]
    ELSE df

\* The caller's frame after a handler returned: every frame a handler
\* writes to (df_filtered, valve_df, power_df, cycle_power) is a .copy(),
\* and the handlers assign to no attribute of self.
df_after(handler, df) == df

----------------------------------------------------------------------------
(* The telemetry source and the calls                                      *)

\* Samples of three of the event log's signals (the first, one in the middle
\* and the last of its loop), and the limits asked for (10 is the default).
MaxEventRows == 5
EventTimes == 0..2
MaxLimit == 2
EventValues ==
    [compressor_status |-> {0, 1},
     switch_valve_status |-> {0, 1},
     alarm_code |-> {0, 1}]
Limits == 0..MaxLimit \cup {10}

\* Samples of the three on/off signals, the compressor's over four minutes
\* and the pumps' over two; 2 stands for a positive reading other than the
\* one before it.
MaxOnOffRows == 4
OnOffTimes ==
    [compressor_status |-> 0..3,
     brine_pump_status |-> 0..1,
     radiator_pump_status |-> 1..2]
OnOffValues ==
    [compressor_status |-> {0, 1, 2},
     brine_pump_status |-> {0, 1},
     radiator_pump_status |-> {0, 1}]

\* Samples of the auxiliary-heat signal in half percents: off, 5.5 %, 15.5 %
\* and 26 %.
MaxAuxPercentRows == 5
AuxPercentTimes == 0..4
AuxPercentValues == {0, 11, 31, 52}

\* Samples of the alarm code: none, a code the table knows and one it does
\* not know.
MaxAlarmCodeRows == 5
AlarmCodeTimes == 0..4
AlarmCodeValues == {0, 1, 3}

\* The time ranges asked for: the strings of up to MaxRangeLen characters
\* over the digits 0 to 7, the units h, d and m, and the dot.
MaxRangeLen == 3
RangeChars == {"0", "1", "2", "3", "4", "5", "6", "7", "h", "d", "m", "."}
TimeRanges == UNION {[1..n -> RangeChars] : n \in 1..MaxRangeLen}

\* The time ranges the handlers are called with: 1 hour, 24 hours, 7 days, 90
\* minutes, one and a half hours and a unit without a count; and the few
\* samples the source holds then.
RequestRanges ==
    {<<"1", "h">>, <<"2", "4", "h">>, <<"7", "d">>, <<"9", "0", "m">>,
     <<"1", ".", "5", "h">>, <<"h">>}
MaxRequestRows == 2
RequestTimes == 0..1

\* Samples of the alarm status and the alarm code, and the time of the call:
\* one sample time lies more than 7 days before the call, one within the 7
\* days and two within the last hour.
MaxAlarmRows == 4
AlarmTimes == {10, 5000, 10070, 10090}
AlarmNow == {10100}
AlarmValues ==
    [alarm_status |-> {0, 1},
     alarm_code |-> {0, 1}]

\* A fetched batch: the five inputs of one COP estimate at minute 0, valve
\* samples at minutes 0, 1 and 11 and power samples at minutes 1 and 11.
MaxBatchRows == 3
BatchTimes ==
    [radiator_forward |-> {0}, radiator_return |-> {0},
     brine_in_evaporator |-> {0}, brine_out_condenser |-> {0},
     compressor_status |-> {0},
     switch_valve_status |-> {0, 1, 11},
     power_consumption |-> {1, 11}]
BatchValues ==
    [radiator_forward |-> {324}, radiator_return |-> {300},
     brine_in_evaporator |-> {6}, brine_out_condenser |-> {0},
     compressor_status |-> {1},
     switch_valve_status |-> {0, 1},
     power_consumption |-> {1500}]

\* Valve and power samples around two cycles of ten minutes.
MaxCycleRows == 5
CycleTimes ==
    [switch_valve_status |-> {0, 1, 11, 12, 22},
     power_consumption |-> {1, 11, 22}]
CycleValues ==
    [switch_valve_status |-> {0, 1},
     power_consumption |-> {1500}]

\* Valve samples around two cycles of ten minutes; 2 stands for a reading
\* that is neither 0 nor 1.
MaxRateRows == 5
RateTimes == {0, 1, 11, 12, 22}
RateValues == {0, 1, 2}

\* Samples of the switch valve over six minutes.
MaxValveEventRows == 6
ValveEventTimes == 0..5

\* A nearly empty bucket: at most MaxFewRows samples over five metrics.
MaxFewRows == 3
FewTimes == 0..2
FewValues ==
    [switch_valve_status |-> {0, 1},
     power_consumption |-> {500},
     compressor_status |-> {0, 1},
     additional_heat_percent |-> {0, 50},
     radiator_forward |-> {306}]

\* Samples of the COP inputs, temperatures in tenths of a degree, on two
\* timestamps: the estimate of a row depends on another row only through
\* the columns that row brings into the frame.
CopTimes == {0, 1}
CopValues ==
    [radiator_forward |-> {305, 306, 324, 588},
     radiator_return |-> {300},
     brine_in_evaporator |-> {5, 6},
     brine_out_condenser |-> {0},
     compressor_status |-> {0, 1}]

\* Status samples of the compressor and of the auxiliary heater.
MaxRuntimeRows == 3
RuntimeHorizon == 3
CompressorValues == {0, 1}
AuxValues == {0, 50}

\* Power samples, in W, and the prices asked for (2 is the default).
MaxPowerRows == 4
PowerHorizon == 5
PowerValues == {0, 500, 1500}
Prices == {2, 3}

\* Valve samples: up to MaxValveRows of them within the first DenseHorizon
\* minutes, or up to MaxSparseRows of them on a horizon long enough for a
\* cycle that lasts exactly the larger threshold.
MaxValveRows == 7
DenseHorizon == 7
MaxSparseRows == 5
ValveTimes == 0..(MIN_CYCLE_DURATION_MINUTES_from_df + 1)

Init ==
    /\ bucket = EmptyFrame
    /\ pc = "ingest"
    /\ call = [op |-> "none"]
    /\ result = [op |-> "none"]
    /\ locals = [op |-> "none"]

LastTime(rows) == IF rows = {} THEN -1
                  ELSE CHOOSE t \in {r.time : r \in rows} : \A r \in rows : r.time <= t

\* The source records one more aggregated sample of a metric, later than
\* the samples it already holds for it.
Ingest(name, t, v, max_rows) ==
    /\ pc = "ingest"
    /\ Cardinality(bucket[name]) < max_rows
    /\ t > LastTime(bucket[name])
    /\ bucket' = [bucket EXCEPT ![name] = @ \cup {[time |-> t, value |-> v]}]
    /\ UNCHANGED <<pc, call, result, locals>>

IngestValve ==
    \E t \in ValveTimes, v \in {0, 1} :
        /\ t <= DenseHorizon \/ Cardinality(bucket["switch_valve_status"]) < MaxSparseRows
        /\ Ingest("switch_valve_status", t, v, MaxValveRows)

\* analyze_hot_water_cycles_from_df(df, time_range) on the batch its caller
\* fetched for time_range with query_metrics: that batch is aggregated with
\* the window _get_aggregation_window chooses, and the handler itself uses
\* time_range in its log lines only.
analyze_hot_water_cycles_from_df_of(time_range) ==
    /\ pc = "ingest"
    /\ LET df == try_query_metrics(bucket, Metrics, time_range, None, "returns")
           out == hot_water_cycles(df, MIN_CYCLE_DURATION_MINUTES_from_df)
       IN  /\ locals' = Locals(out)
           /\ \E r \in out.ret : result' = r
    /\ call' = [op |-> "analyze_hot_water_cycles_from_df",
                min_minutes |-> MIN_CYCLE_DURATION_MINUTES_from_df,
                time_range |-> time_range,
                aggregation_window |-> aggregation_window(time_range).value]
    /\ pc' = "done"
    /\ UNCHANGED bucket

\* The call with the default time range, '7d'.
analyze_hot_water_cycles_from_df ==
    analyze_hot_water_cycles_from_df_of(<<"7", "d">>)

\* analyze_hot_water_cycles(time_range) against a source that returns or
\* raises; it always asks for the 1m window.
analyze_hot_water_cycles_of(time_range, upstream) ==
    /\ pc = "ingest"
    /\ LET out == hot_water_cycles(
                     try_query_metrics(bucket,
                         {"switch_valve_status", "hot_water_top",
                          "power_consumption"},
                         time_range, Some("1m"), upstream),
                     MIN_CYCLE_DURATION_MINUTES)
       IN  /\ locals' = Locals(out)
           /\ \E r \in out.ret : result' = r
    /\ call' = [op |-> "analyze_hot_water_cycles",
                min_minutes |-> MIN_CYCLE_DURATION_MINUTES,
                time_range |-> time_range,
                aggregation_window |-> "1m",
                upstream |-> upstream]
    /\ pc' = "done"
    /\ UNCHANGED bucket

\* The call with the default time range, '7d', served by the source.
analyze_hot_water_cycles ==
    analyze_hot_water_cycles_of(<<"7", "d">>, "returns")

IngestPower ==
    \E t \in 0..PowerHorizon, v \in PowerValues :
        Ingest("power_consumption", t, v, MaxPowerRows)

\* calculate_energy_costs(time_range, price_per_kwh) against a source that
\* returns or raises.
calculate_energy_costs_of(time_range, upstream) ==
    /\ pc = "ingest"
    /\ \E price_per_kwh \in Prices :
          LET out == energy_costs(
                        try_query_metrics(bucket, {"power_consumption"},
                                          time_range, None, upstream),
                        price_per_kwh)
          IN  /\ locals' = Locals(out)
              /\ \E r \in out.ret : result' = r
              /\ call' = [op |-> "calculate_energy_costs",
                          price_per_kwh |-> price_per_kwh,
                          time_range |-> time_range,
                          upstream |-> upstream]
    /\ pc' = "done"
    /\ UNCHANGED bucket

\* The call with the default time range, '24h', served by the source.
calculate_energy_costs ==
    calculate_energy_costs_of(<<"2", "4", "h">>, "returns")

NextEnergy ==
    \/ IngestPower
    \/ calculate_energy_costs

SpecEnergy == Init /\ [][NextEnergy]_vars

IngestCompressor ==
    \E t \in 0..RuntimeHorizon, v \in CompressorValues :
        Ingest("compressor_status", t, v, MaxRuntimeRows)

IngestAux ==
    \E t \in 0..RuntimeHorizon, v \in AuxValues :
        Ingest("additional_heat_percent", t, v, MaxRuntimeRows)

\* calculate_runtime_stats(time_range) against a source that returns or
\* raises.
calculate_runtime_stats_of(time_range, upstream) ==
    /\ pc = "ingest"
    /\ LET out == runtime_stats(
                     try_query_metrics(bucket,
                         {"compressor_status", "additional_heat_percent"},
                         time_range, None, upstream))
       IN  /\ locals' = Locals(out)
           /\ \E r \in out.ret : result' = r
    /\ call' = [op |-> "calculate_runtime_stats",
                time_range |-> time_range,
                upstream |-> upstream]
    /\ pc' = "done"
    /\ UNCHANGED bucket

\* The call with the default time range, '24h', served by the source.
calculate_runtime_stats ==
    calculate_runtime_stats_of(<<"2", "4", "h">>, "returns")

NextRuntime ==
    \/ IngestCompressor
    \/ IngestAux
    \/ calculate_runtime_stats

SpecRuntime == Init /\ [][NextRuntime]_vars

IngestCop ==
    \E name \in DOMAIN CopValues :
        \E t \in CopTimes, v \in CopValues[name] :
            Ingest(name, t, v, Cardinality(CopTimes))

calculate_cop_from_df ==
    /\ pc = "ingest"
    /\ result' = cop_from_df(bucket)
    /\ locals' = [exit |-> "df_pivot"]
    /\ call' = [op |-> "calculate_cop_from_df"]
    /\ pc' = "done"
    /\ UNCHANGED bucket

\* calculate_cop(time_range) against a source that returns or raises.
calculate_cop_of(time_range, upstream) ==
    /\ pc = "ingest"
    /\ LET df == try_query_cop(bucket, time_range, upstream)
       IN  /\ result' = cop_from_df(df.frame)
           /\ locals' = [exit |-> df.exit]
    /\ call' = [op |-> "calculate_cop",
                time_range |-> time_range,
                upstream |-> upstream]
    /\ pc' = "done"
    /\ UNCHANGED bucket

\* The call with the default time range, '24h', served by the source.
calculate_cop ==
    calculate_cop_of(<<"2", "4", "h">>, "returns")

NextCop ==
    \/ IngestCop
    \/ calculate_cop_from_df
    \/ calculate_cop

SpecCop == Init /\ [][NextCop]_vars

IngestEvent ==
    \E name \in DOMAIN EventValues :
        \E t \in EventTimes, v \in EventValues[name] :
            /\ RowCount(bucket) < MaxEventRows
            /\ Ingest(name, t, v, MaxEventRows)

\* get_event_log(limit) against a source that returns or raises.
get_event_log_of(upstream) ==
    /\ pc = "ingest"
    /\ \E limit \in Limits :
          LET out == try_event_log(bucket, limit, upstream)
          IN  /\ locals' = Locals(out)
              /\ \E r \in out.ret : result' = r
              /\ call' = [op |-> "get_event_log", limit |-> limit,
                          upstream |-> upstream]
    /\ pc' = "done"
    /\ UNCHANGED bucket

\* The call served by the source.
get_event_log ==
    get_event_log_of("returns")

NextEvents ==
    \/ IngestEvent
    \/ get_event_log

SpecEvents == Init /\ [][NextEvents]_vars

IngestFew ==
    \E name \in DOMAIN FewValues :
        \E t \in FewTimes, v \in FewValues[name] :
            /\ RowCount(bucket) < MaxFewRows
            /\ Ingest(name, t, v, MaxFewRows)

NextFew ==
    \/ IngestFew
    \/ calculate_energy_costs
    \/ calculate_runtime_stats
    \/ analyze_hot_water_cycles_from_df
    \/ analyze_hot_water_cycles
    \/ calculate_cop_from_df
    \/ calculate_cop

SpecFew == Init /\ [][NextFew]_vars

IngestOnOff ==
    \E name \in DOMAIN OnOffValues :
        \E t \in OnOffTimes[name], v \in OnOffValues[name] :
            /\ RowCount(bucket) < MaxOnOffRows
            /\ Ingest(name, t, v, MaxOnOffRows)

NextOnOff ==
    \/ IngestOnOff
    \/ get_event_log

SpecOnOff == Init /\ [][NextOnOff]_vars

IngestAuxPercent ==
    \E t \in AuxPercentTimes, v \in AuxPercentValues :
        Ingest("additional_heat_percent", t, v, MaxAuxPercentRows)

NextAuxPercent ==
    \/ IngestAuxPercent
    \/ get_event_log

SpecAuxPercent == Init /\ [][NextAuxPercent]_vars

IngestAlarmCode ==
    \E t \in AlarmCodeTimes, v \in AlarmCodeValues :
        Ingest("alarm_code", t, v, MaxAlarmCodeRows)

NextAlarmCode ==
    \/ IngestAlarmCode
    \/ get_event_log

SpecAlarmCode == Init /\ [][NextAlarmCode]_vars

\* The window selectors keep no state and read none: a call is its argument
\* and what it leaves.
get_aggregation_window ==
    /\ pc = "ingest"
    /\ \E time_range \in TimeRanges :
          /\ result' = aggregation_window(time_range)
          /\ call' = [op |-> "_get_aggregation_window", time_range |-> time_range]
    /\ pc' = "done"
    /\ locals' = [op |-> "none"]
    /\ UNCHANGED bucket

get_cop_aggregation_window ==
    /\ pc = "ingest"
    /\ \E time_range \in TimeRanges :
          /\ result' = cop_aggregation_window(time_range)
          /\ call' = [op |-> "_get_cop_aggregation_window",
                      time_range |-> time_range]
    /\ pc' = "done"
    /\ locals' = [op |-> "none"]
    /\ UNCHANGED bucket

NextWindow ==
    \/ get_aggregation_window
    \/ get_cop_aggregation_window

SpecWindow == Init /\ [][NextWindow]_vars

IngestRequest ==
    \E name \in DOMAIN FewValues :
        \E t \in RequestTimes, v \in FewValues[name] :
            /\ RowCount(bucket) < MaxRequestRows
            /\ Ingest(name, t, v, MaxRequestRows)

request_energy_costs ==
    \E time_range \in RequestRanges, upstream \in Upstream :
        calculate_energy_costs_of(time_range, upstream)

request_runtime_stats ==
    \E time_range \in RequestRanges, upstream \in Upstream :
        calculate_runtime_stats_of(time_range, upstream)

request_hot_water_cycles ==
    \E time_range \in RequestRanges, upstream \in Upstream :
        analyze_hot_water_cycles_of(time_range, upstream)

request_hot_water_cycles_from_df ==
    \E time_range \in RequestRanges :
        analyze_hot_water_cycles_from_df_of(time_range)

request_cop ==
    \E time_range \in RequestRanges, upstream \in Upstream :
        calculate_cop_of(time_range, upstream)

request_event_log ==
    \E upstream \in Upstream : get_event_log_of(upstream)

NextRequests ==
    \/ IngestRequest
    \/ request_energy_costs
    \/ request_runtime_stats
    \/ request_hot_water_cycles
    \/ request_hot_water_cycles_from_df
    \/ request_cop
    \/ request_event_log

SpecRequests == Init /\ [][NextRequests]_vars

IngestAlarm ==
    \E name \in DOMAIN AlarmValues :
        \E t \in AlarmTimes, v \in AlarmValues[name] :
            /\ RowCount(bucket) < MaxAlarmRows
            /\ Ingest(name, t, v, MaxAlarmRows)

get_alarm_status ==
    /\ pc = "ingest"
    /\ \E now \in AlarmNow, upstream_latest \in Upstream, upstream_alarm \in Upstream :
          /\ result' = alarm_status_at(bucket, now, upstream_latest, upstream_alarm)
          /\ call' = [op |-> "get_alarm_status", now |-> now,
                      upstream_latest |-> upstream_latest,
                      upstream_alarm |-> upstream_alarm]
    /\ locals' = [op |-> "none"]
    /\ pc' = "done"
    /\ UNCHANGED bucket

NextAlarm ==
    \/ IngestAlarm
    \/ get_alarm_status

SpecAlarm == Init /\ [][NextAlarm]_vars

IngestBatch ==
    \E name \in DOMAIN BatchValues :
        \E t \in BatchTimes[name], v \in BatchValues[name] :
            Ingest(name, t, v, MaxBatchRows)

\* A caller fetches the batch (bucket holds its frame from here on) and
\* hands it to one of the two handlers.
analyze_batch ==
    /\ pc = "ingest"
    /\ \E handler \in from_df_handlers :
          /\ result' = from_df_result(handler, bucket)
          /\ bucket' = df_after(handler, bucket)
          /\ call' = [op |-> handler, runs |-> 1, between |-> "none"]
          /\ locals' = [df |-> bucket,
                        first |-> from_df_result(handler, bucket),
                        between |-> "none"]
    /\ pc' = "batch"

\* The caller hands the same frame to the other handler.
analyze_batch_between ==
    /\ pc = "batch"
    /\ call.between = "none"
    /\ \E handler \in from_df_handlers \ {call.op} :
          /\ bucket' = df_after(handler, bucket)
          /\ call' = [call EXCEPT !.between = handler]
          /\ locals' = [locals EXCEPT !.between = from_df_result(handler, bucket)]
    /\ UNCHANGED <<pc, result>>

\* The caller hands the same frame to the first handler again.
analyze_batch_again ==
    /\ pc = "batch"
    /\ result' = from_df_result(call.op, bucket)
    /\ bucket' = df_after(call.op, bucket)
    /\ call' = [call EXCEPT !.runs = 2]
    /\ pc' = "done"
    /\ UNCHANGED locals

NextBatch ==
    \/ IngestBatch
    \/ analyze_batch
    \/ analyze_batch_between
    \/ analyze_batch_again

SpecBatch == Init /\ [][NextBatch]_vars

IngestCycle ==
    \E name \in DOMAIN CycleValues :
        \E t \in CycleTimes[name], v \in CycleValues[name] :
            Ingest(name, t, v, MaxCycleRows)

NextCycleEnergy ==
    \/ IngestCycle
    \/ analyze_hot_water_cycles_from_df
    \/ analyze_hot_water_cycles

SpecCycleEnergy == Init /\ [][NextCycleEnergy]_vars

IngestRate ==
    \E t \in RateTimes, v \in RateValues :
        Ingest("switch_valve_status", t, v, MaxRateRows)

NextRate ==
    \/ IngestRate
    \/ request_hot_water_cycles
    \/ request_hot_water_cycles_from_df

SpecRate == Init /\ [][NextRate]_vars

IngestValveEvent ==
    \E t \in ValveEventTimes, v \in {0, 1} :
        Ingest("switch_valve_status", t, v, MaxValveEventRows)

NextValveEvents ==
    \/ IngestValveEvent
    \/ get_event_log
    \/ analyze_hot_water_cycles

SpecValveEvents == Init /\ [][NextValveEvents]_vars

Next ==
    \/ IngestValve
    \/ analyze_hot_water_cycles_from_df
    \/ analyze_hot_water_cycles

Spec == Init /\ [][Next]_vars

----------------------------------------------------------------------------
(* Properties of the hot-water cycle detector                              *)

CycleOps == {"analyze_hot_water_cycles_from_df", "analyze_hot_water_cycles"}
CycleDone == pc = "done" /\ call.op \in CycleOps

Valve == bucket["switch_valve_status"]

\* r is a sample equal to 1 whose immediate predecessor in time is 0.
IsTransition(r) ==
    /\ r.value = 1
    /\ \E p \in Valve :
          /\ p.time < r.time
          /\ p.value = 0
          /\ ~ \E q \in Valve : p.time < q.time /\ q.time < r.time

\* The samples equal to 0 strictly later than r.
Closing(r) == {z \in Valve : z.value = 0 /\ z.time > r.time}

\* The first closing 0 after r.
FirstClosing(r) == CHOOSE z \in Closing(r) : \A y \in Closing(r) : z.time <= y.time

ClosedTransitions == {r \in Valve : IsTransition(r) /\ Closing(r) # {}}

ExpectedPairs == {<<r.time, FirstClosing(r).time>> : r \in ClosedTransitions}

SeqRange(s) == {s[i] : i \in 1..Len(s)}

\* The k-th valve sample in time order.
ValveAt(k) == CHOOSE r \in Valve : Cardinality({q \in Valve : q.time < r.time}) = k - 1
ValveValues == [k \in 1..Cardinality(Valve) |-> ValveAt(k).value]
ValveTime(k) == ValveAt(k).time

\* C1: the detector pairs every 0->1 transition with the first 0 strictly
\* later, and these pairs, each once, are exactly the complete cycles it
\* detects; a transition with no later 0 gives no cycle; the samples
\* [0,1,1,0,0,1,0] at t0..t6 give exactly (t1,t3) and (t5,t6).
C1_CyclePairing ==
    CycleDone =>
        /\ SeqRange(locals.pairs) = ExpectedPairs
        /\ Len(locals.pairs) = Cardinality(ExpectedPairs)
        /\ \A r \in Valve :
              IsTransition(r) /\ Closing(r) = {} =>
                  ~ \E c \in SeqRange(locals.pairs) : c[1] = r.time
        /\ ValveValues = <<0, 1, 1, 0, 0, 1, 0>> =>
              locals.pairs = << <<ValveTime(2), ValveTime(4)>>,
                                <<ValveTime(6), ValveTime(7)>> >>

\* Witness of C1: the detector has run on [0,1,1,0,0,1,0] and found two cycles.
C1_Witness ==
    /\ CycleDone
    /\ ValveValues = <<0, 1, 1, 0, 0, 1, 0>>
    /\ Len(locals.pairs) = 2

PairDurations == [i \in 1..Len(locals.pairs) |-> locals.pairs[i][2] - locals.pairs[i][1]]

\* C2: a cycle lasting exactly the threshold is retained and a shorter one
\* rejected; rejected plus retained cycles are the 0->1 transitions that
\* found a closing 0, so a transition without one is in neither group.
C2_DurationFilter ==
    CycleDone =>
        /\ locals.cycle_durations =
              SelectSeq(PairDurations, LAMBDA d : d >= call.min_minutes)
        /\ locals.filtered_count =
              Cardinality({i \in 1..Len(locals.pairs) :
                              PairDurations[i] < call.min_minutes})
        /\ locals.filtered_count + Len(locals.cycle_durations)
              = Cardinality(ClosedTransitions)
        /\ result.total_cycles = Len(locals.cycle_durations)

\* Witness of C2: a cycle of exactly the threshold was retained and one a
\* minute shorter was rejected.
C2_Witness ==
    /\ CycleDone
    /\ \E i, j \in 1..Len(locals.pairs) :
          /\ PairDurations[i] = call.min_minutes
          /\ PairDurations[j] = call.min_minutes - 1
    /\ locals.cycle_durations = <<call.min_minutes>>
    /\ locals.filtered_count = 1

----------------------------------------------------------------------------
(* Properties of the energy integrator                                     *)

EnergyDone == pc = "done" /\ call.op = "calculate_energy_costs"
EnergyComputed == EnergyDone /\ locals.exit = "costs"

Power == bucket["power_consumption"]

\* The rows of S immediately before and after r in time.
Before(S, r) == {q \in S : q.time < r.time}
After(S, r) == {q \in S : q.time > r.time}
PrevRow(S, r) == CHOOSE q \in Before(S, r) : \A x \in Before(S, r) : x.time <= q.time
NextRow(S, r) == CHOOSE q \in After(S, r) : \A x \in After(S, r) : q.time <= x.time

\* Each reading times the minutes until the next reading.
HeldUntilNext(S) ==
    SumFn([r \in {q \in S : After(S, q) # {}} |->
              r.value * (NextRow(S, r).time - r.time)])

\* Each reading times the minutes since the previous reading.
HeldSincePrevious(S) ==
    SumFn([r \in {q \in S : Before(S, q) # {}} |->
              r.value * (r.time - PrevRow(S, r).time)])

\* C3 as stated: the integrated energy is the left Riemann sum, each power
\* reading held constant until the next reading arrives.
C3_LeftRiemannSum ==
    EnergyComputed => locals.total_kwh = HeldUntilNext(Power)

\* C3 as amended: the integrated energy is the sum over the samples after
\* the first of power[i] times the time elapsed since sample i-1 (the first
\* sample contributes nothing), and the returned total_kwh is that sum
\* rounded to hundredths of a kWh.
C3_RightRiemannSum ==
    EnergyComputed =>
        /\ locals.total_kwh = HeldSincePrevious(Power)
        /\ 2 * Abs(600 * result.total_kwh - HeldSincePrevious(Power)) <= 600

\* Witness of C3: the integrator has run on a series on which holding a
\* reading forward and attributing it backward give different energies.
C3_Witness ==
    /\ EnergyComputed
    /\ Cardinality(Power) >= 3
    /\ HeldUntilNext(Power) # HeldSincePrevious(Power)
    /\ locals.total_kwh > 0

PowerSpan ==
    LET times == {r.time : r \in Power}
    IN  (CHOOSE t \in times : \A u \in times : u <= t)
        - (CHOOSE t \in times : \A u \in times : t <= u)

\* C4: a series whose samples all have the value P and whose first and last
\* timestamps are T apart integrates to P*T, whatever the spacing between.
C4_ConstantPower ==
    EnergyComputed =>
        \A P \in {r.value : r \in Power} :
            (\A r \in Power : r.value = P) => locals.total_kwh = P * PowerSpan

\* Witness of C4: a constant positive series with uneven spacing was integrated.
C4_Witness ==
    /\ EnergyComputed
    /\ \E P \in {r.value : r \in Power} : P > 0 /\ \A r \in Power : r.value = P
    /\ \E a, b \in Power :
          /\ Before(Power, a) # {} /\ Before(Power, b) # {}
          /\ a.time - PrevRow(Power, a).time # b.time - PrevRow(Power, b).time
    /\ locals.total_kwh > 0

----------------------------------------------------------------------------
(* Properties of the runtime estimator                                     *)

RuntimeDone == pc = "done" /\ call.op = "calculate_runtime_stats"
RuntimeComputed == RuntimeDone /\ locals.exit = "stats"

Compressor == bucket["compressor_status"]
AuxHeater == bucket["additional_heat_percent"]

SpanOf(S) ==
    LET times == {r.time : r \in S}
    IN  IF S = {} THEN 0
        ELSE (CHOOSE t \in times : \A u \in times : u <= t)
             - (CHOOSE t \in times : \A u \in times : t <= u)

\* The window of the call, in seconds: from the first to the last sample.
WindowSeconds == 60 * SpanOf(Compressor \cup AuxHeater)

\* Seconds accrued by S: every active sample but the last until its
\* successor, and the last one, when active and preceded, for the interval
\* between the last two.
Accrued(S) ==
    SumFn([r \in {q \in S : After(S, q) # {} /\ q.value > 0} |->
              60 * (NextRow(S, r).time - r.time)])
    + SumFn([r \in {q \in S : After(S, q) = {} /\ Before(S, q) # {} /\ q.value > 0} |->
              60 * (r.time - PrevRow(S, r).time)])

\* p is x / y * 100 rounded to tenths of a percent.
IsPercentOf(p, x, y) == 2 * Abs(p * y - 1000 * x) <= y

\* C5: the estimator accrues time[i+1] - time[i] for every active non-final
\* sample, nothing for a sample <= 0, the interval between the last two
\* samples for an active final sample that has a predecessor, and the
\* percentage is the accrued time over the window times 100.
C5_RuntimeAccrual ==
    RuntimeComputed =>
        /\ locals.comp_runtime_seconds = Accrued(Compressor)
        /\ locals.aux_runtime_seconds = Accrued(AuxHeater)
        /\ IsPercentOf(result.compressor_runtime_percent,
                       Accrued(Compressor), WindowSeconds)
        /\ IsPercentOf(result.aux_heater_runtime_percent,
                       Accrued(AuxHeater), WindowSeconds)

\* Witness of C5: the compressor series held an active sample followed by an
\* idle one and ended active, and the estimator has run on it.
C5_Witness ==
    /\ RuntimeComputed
    /\ \E a, b, c \in Compressor :
          /\ a.time < b.time /\ b.time < c.time
          /\ a.value > 0 /\ b.value = 0 /\ c.value > 0
          /\ After(Compressor, c) = {}
    /\ locals.comp_runtime_seconds > 0

EvenlySpaced(S) ==
    \A a, b \in S :
        Before(S, a) # {} /\ Before(S, b) # {} =>
            a.time - PrevRow(S, a).time = b.time - PrevRow(S, b).time

\* C6: an all-zero state series gives 0 percent, and an all-positive series
\* of evenly spaced samples spanning the window gives about 100 percent
\* (here: within one percentage point of it), not more.
C6_RuntimeBoundary ==
    RuntimeComputed =>
        /\ (\A r \in Compressor : r.value = 0) =>
              result.compressor_runtime_percent = 0
        /\ ( /\ Cardinality(Compressor) >= 2
             /\ \A r \in Compressor : r.value > 0
             /\ EvenlySpaced(Compressor)
             /\ 60 * SpanOf(Compressor) = WindowSeconds )
            => /\ result.compressor_runtime_percent >= 990
               /\ result.compressor_runtime_percent <= 1010

----------------------------------------------------------------------------
(* Properties of the COP estimator                                         *)

CopDone == pc = "done" /\ call.op \in {"calculate_cop_from_df", "calculate_cop"}

\* The value the bucket holds for metric m at time t, if any.
Reading(m, t) == {r.value : r \in {q \in bucket[m] : q.time = t}}

AllTimes == UNION {{r.time : r \in bucket[m]} : m \in Metrics}

RadiatorDelta(t) ==
    {f - r : f \in Reading("radiator_forward", t), r \in Reading("radiator_return", t)}
BrineDelta(t) ==
    {i - o : i \in Reading("brine_in_evaporator", t),
             o \in Reading("brine_out_condenser", t)}

\* compressor_state > 0 and brine_delta > 0.5 and radiator_delta > 0.5 at t.
Estimable(t) ==
    /\ \E c \in Reading("compressor_status", t) : c > 0
    /\ \E b \in BrineDelta(t) : b > 5
    /\ \E r \in RadiatorDelta(t) : r > 5

\* The estimates the returned frame holds for time t.
Emitted(t) ==
    IF "estimated_cop" \notin result.columns THEN {}
    ELSE UNION {result.rows[i]["estimated_cop"] :
                  i \in {j \in 1..Len(result.rows) : result.rows[j]["_time"] = t}}

\* C8: an estimate is emitted for a timestamp exactly when there
\* compressor_state > 0, brine_delta > 0.5 and radiator_delta > 0.5; at any
\* other timestamp, one with a missing input included, it is absent.
C8_CopMask ==
    CopDone =>
        /\ \A t \in AllTimes :
              /\ Estimable(t) => Cardinality(Emitted(t)) = 1
              /\ ~Estimable(t) => Emitted(t) = {}
        /\ \A i \in 1..Len(result.rows) : result.rows[i]["_time"] \in AllTimes

\* Witness of C8: the frame returned holds an estimate at one timestamp and
\* none at another where the compressor is idle but both deltas exceed 0.5.
C8_Witness ==
    /\ CopDone
    /\ \E t, u \in AllTimes :
          /\ Emitted(t) # {}
          /\ Emitted(u) = {}
          /\ \E b \in BrineDelta(u) : b > 5
          /\ \E r \in RadiatorDelta(u) : r > 5
          /\ \E c \in Reading("compressor_status", u) : c = 0

\* C9: every emitted COP lies in [1.5, 6.0]: it is the raw estimate
\* 2.0 + radiator_delta / brine_delta when that lies in the range, exactly
\* 6.0 when the raw estimate is above and exactly 1.5 when it is below.
C9_CopClamp ==
    CopDone =>
        \A t \in AllTimes : \A e \in Emitted(t) :
            /\ 2 * e.num >= 3 * e.den
            /\ e.num <= 6 * e.den
            /\ \A rd \in RadiatorDelta(t), bd \in BrineDelta(t) :
                  LET raw_num == 2 * bd + rd
                      raw_den == bd
                  IN  /\ (2 * raw_num >= 3 * raw_den /\ raw_num <= 6 * raw_den)
                          => e.num * raw_den = raw_num * e.den
                      /\ raw_num > 6 * raw_den => e.num = 6 * e.den
                      /\ 2 * raw_num < 3 * raw_den => 2 * e.num = 3 * e.den

\* Witness of C9: a raw estimate of 50.0 was emitted as exactly 6.0.
C9_Witness ==
    /\ CopDone
    /\ \E t \in AllTimes :
          /\ \E rd \in RadiatorDelta(t), bd \in BrineDelta(t) :
                2 * bd + rd = 50 * bd
          /\ \E e \in Emitted(t) : e.num = 6 * e.den

----------------------------------------------------------------------------
(* Properties of the event log                                             *)

EventsDone == pc = "done" /\ call.op = "get_event_log"

\* The samples of the six signals whose value differs from 0 on one side
\* only of the step from their predecessor: the steps that are events when
\* the values are 0 or 1.
Steps ==
    UNION {{<<m, r.time>> :
              r \in {q \in bucket[m] :
                        /\ Before(bucket[m], q) # {}
                        /\ (q.value = 0) # (PrevRow(bucket[m], q).value = 0)}} :
           m \in SeqRange(event_metrics)}

MinOf(a, b) == IF a < b THEN a ELSE b

\* What C10 and its amendment share: every step of a signal is detected as
\* one event, min(limit, detected) of the detected events are returned, each
\* once, and an event left out is never more recent than one returned.
MostRecent ==
    /\ Len(locals.events) = Cardinality(Steps)
    /\ {e.time : e \in SeqRange(locals.events)} = {s[2] : s \in Steps}
    /\ Len(result) = MinOf(call.limit, Len(locals.events))
    /\ SeqRange(result) \subseteq SeqRange(locals.events)
    /\ Cardinality(SeqRange(result)) = Len(result)
    /\ \A e \in SeqRange(locals.events) \ SeqRange(result) :
          \A r \in SeqRange(result) : e.time <= r.time

\* C10 as stated: min(limit, detected) events, the most recent ones, are
\* returned, each with a timestamp strictly later than the next one's.
C10_StrictlyDescending ==
    EventsDone =>
        /\ MostRecent
        /\ \A i \in 1..(Len(result) - 1) : result[i].time > result[i + 1].time

\* C10 as amended: min(limit, detected) events, the most recent ones, are
\* returned, each with a timestamp later than or equal to the next one's.
C10_Descending ==
    EventsDone =>
        /\ MostRecent
        /\ \A i \in 1..(Len(result) - 1) : result[i].time >= result[i + 1].time

\* Witness of C10: more events were detected than the limit allows, two of
\* the returned ones on different signals at the same minute.
C10_Witness ==
    /\ EventsDone
    /\ Len(locals.events) > call.limit
    /\ Len(result) = call.limit
    /\ \E i \in 1..(Len(result) - 1) : result[i].time = result[i + 1].time

----------------------------------------------------------------------------
(* Absence of data                                                         *)

\* No detected cycle lasts the threshold of the call.
NoCycleSurvives ==
    \A r \in ClosedTransitions : FirstClosing(r).time - r.time < call.min_minutes

CopInputs == UNION {bucket[m] : m \in cop_metrics}

\* C7: on an empty series the energy, runtime and cycle operations return
\* their result with every field zero (runtime also on a zero window, cycles
\* also when no cycle survives the filter) and the COP estimator an empty
\* frame; no result lacks a field.
C7_NoDataIsZero ==
    /\ EnergyDone =>
          /\ DOMAIN result = {"total_kwh", "total_cost", "avg_power", "peak_power"}
          /\ Power = {} => \A f \in DOMAIN result : result[f] = 0
    /\ RuntimeDone =>
          /\ DOMAIN result =
                {"compressor_runtime_hours", "compressor_runtime_percent",
                 "aux_heater_runtime_hours", "aux_heater_runtime_percent",
                 "total_hours"}
          /\ (Compressor \cup AuxHeater = {} \/ WindowSeconds = 0)
                => \A f \in DOMAIN result : result[f] = 0
    /\ CycleDone =>
          /\ DOMAIN result =
                {"total_cycles", "avg_cycle_duration_minutes",
                 "avg_energy_per_cycle_kwh", "cycles_per_day"}
          /\ (Valve = {} \/ NoCycleSurvives)
                => \A f \in DOMAIN result : result[f] = 0
    /\ CopDone =>
          /\ DOMAIN result = {"columns", "rows"}
          /\ CopInputs = {} => result.columns = {} /\ result.rows = <<>>

\* Witness of C7: the runtime operation has returned from a bucket that
\* holds samples, all of them at one timestamp.
C7_Witness ==
    /\ RuntimeDone
    /\ Compressor # {} /\ AuxHeater # {}
    /\ WindowSeconds = 0
    /\ result.total_hours = 0

----------------------------------------------------------------------------
(* Properties of the edge rules of the event log                           *)

\* The texts of the ON and OFF events of the three on/off signals.
OnOffText ==
    [compressor_status |-> [on |-> "Kompressor PA", off |-> "Kompressor AV"],
     brine_pump_status |-> [on |-> "Koldbararpump PA", off |-> "Koldbararpump AV"],
     radiator_pump_status |-> [on |-> "Radiatorpump PA", off |-> "Radiatorpump AV"]]

\* The detected events with the given text at time t, by position.
Detected(text, t) ==
    {i \in 1..Len(locals.events) :
        locals.events[i].event = text /\ locals.events[i].time = t}

\* The values of a signal in time order.
ValuesOf(m) ==
    LET s == sort_values(bucket[m]) IN [i \in 1..Len(s) |-> s[i].value]

\* Nothing is cut off: the limit is at least the number of detected events.
Uncut == call.limit >= Len(locals.events)

\* C11: for the compressor, the brine pump and the radiator pump, one info
\* 'turned ON' event is emitted at every positive sample whose predecessor
\* is 0, one info 'turned OFF' event at every sample that is 0 and whose
\* predecessor is positive, and none at any other sample, the first of a
\* series included.
C11_OnOffEdges ==
    EventsDone =>
        /\ \A m \in DOMAIN OnOffText :
              \A r \in bucket[m] :
                 LET has_prev == Before(bucket[m], r) # {}
                     rising == has_prev /\ r.value > 0
                                   /\ PrevRow(bucket[m], r).value = 0
                     falling == has_prev /\ r.value = 0
                                    /\ PrevRow(bucket[m], r).value > 0
                 IN  /\ Cardinality(Detected(OnOffText[m].on, r.time))
                           = IF rising THEN 1 ELSE 0
                     /\ Cardinality(Detected(OnOffText[m].off, r.time))
                           = IF falling THEN 1 ELSE 0
        /\ \A i \in 1..Len(locals.events) :
              \E m \in DOMAIN OnOffText :
                 /\ locals.events[i].event \in {OnOffText[m].on, OnOffText[m].off}
                 /\ locals.events[i].time \in {r.time : r \in bucket[m]}
                 /\ locals.events[i].type = "info"
        /\ Uncut => /\ Len(result) = Len(locals.events)
                    /\ SeqRange(result) = SeqRange(locals.events)

\* Witness of C11: the compressor reads 1, 0, 1, 2: nothing for the first
\* sample, OFF at the second, ON at the third, nothing at the fourth.
C11_Witness ==
    /\ EventsDone
    /\ ValuesOf("compressor_status") = <<1, 0, 1, 2>>
    /\ Uncut
    /\ Len(result) = 2
    /\ result[1].event = "Kompressor PA"
    /\ result[2].event = "Kompressor AV"

AuxPercent == bucket["additional_heat_percent"]

\* The detected events at time t, in the order they were detected.
DetectedAt(t) ==
    LET RECURSIVE Pick(_)
        Pick(es) == IF es = <<>> THEN <<>>
                    ELSE IF Head(es).time = t THEN <<Head(es)>> \o Pick(Tail(es))
                    ELSE Pick(Tail(es))
    IN  Pick(locals.events)

\* The whole percents of a reading in half percents.
WholePercent(v) == v \div 2

AlarmCode == bucket["alarm_code"]

\* The provider's text for a code, or the fallback that names the code.
LookupText(code) ==
    IF code \in DOMAIN alarm_codes THEN alarm_codes[code] ELSE <<"Kod", code>>

\* C13: on the alarm code a step from 0 to a positive code emits one danger
\* event described by the lookup's text for the code, or by the fallback
\* naming the code when the lookup does not know it; a step from a positive
\* code to 0 emits one success event; no other step emits an event.
C13_AlarmSteps ==
    EventsDone =>
        /\ \A r \in AlarmCode :
              LET has_prev == Before(AlarmCode, r) # {}
                  previous == IF has_prev THEN PrevRow(AlarmCode, r).value ELSE 0
                  emitted == DetectedAt(r.time)
              IN  IF has_prev /\ previous = 0 /\ r.value > 0
                  THEN emitted = <<Event(r.time, "LARM", "danger",
                                         Some(LookupText(r.value)))>>
                  ELSE IF has_prev /\ previous > 0 /\ r.value = 0
                  THEN emitted = <<Event(r.time, "Larm aterstallt", "success", NaN)>>
                  ELSE emitted = <<>>
        /\ \A i \in 1..Len(locals.events) :
              locals.events[i].time \in {r.time : r \in AlarmCode}
        /\ Uncut => /\ Len(result) = Len(locals.events)
                    /\ SeqRange(result) = SeqRange(locals.events)

\* Witness of C13: the codes 0, 3, 1, 0, 1 give a danger event with the
\* fallback for 3, nothing for the step from 3 to 1, a success event and a
\* danger event with the provider's text for 1.
C13_Witness ==
    /\ EventsDone
    /\ ValuesOf("alarm_code") = <<0, 3, 1, 0, 1>>
    /\ Uncut
    /\ [i \in 1..Len(result) |-> <<result[i].type, result[i].detail>>]
          = << <<"danger", Some(alarm_codes[1])>>,
               <<"success", NaN>>,
               <<"danger", Some(<<"Kod", 3>>)>> >>

----------------------------------------------------------------------------
(* Properties of the window selectors                                      *)

WindowDone ==
    pc = "done" /\ call.op \in {"_get_aggregation_window",
                                 "_get_cop_aggregation_window"}

\* The minutes of a window.
WindowMinutes ==
    ("1m" :> 1) @@ ("2m" :> 2) @@ ("3m" :> 3) @@ ("5m" :> 5) @@ ("10m" :> 10) @@
    ("15m" :> 15) @@ ("30m" :> 30) @@ ("1h" :> 60) @@ ("2h" :> 120) @@
    ("6h" :> 360)

\* The number a string of digits writes, read from the left.
RECURSIVE DecimalOf(_, _)
DecimalOf(text, acc) ==
    IF text = <<>> THEN acc
    ELSE DecimalOf(Tail(text), 10 * acc + digit_value[Head(text)])

\* A range that is an integer count of hours or days: digits, then h or d.
IsIntegerRange(time_range) ==
    /\ Len(time_range) >= 2
    /\ time_range[Len(time_range)] \in {"h", "d"}
    /\ \A i \in 1..(Len(time_range) - 1) : time_range[i] \in DOMAIN digit_value

RangeCount(time_range) == DecimalOf(but_last(time_range), 0)
RangeUnit(time_range) == time_range[Len(time_range)]

\* The stated policy, in minutes.
PolicyMinutes(n, unit) ==
    IF unit = "h"
    THEN (IF n <= 1 THEN 1 ELSE IF n <= 6 THEN 3 ELSE IF n <= 24 THEN 5 ELSE 15)
    ELSE (IF n <= 1 THEN 5 ELSE IF n <= 7 THEN 30 ELSE IF n <= 30 THEN 120
          ELSE 360)

\* C14: select_window maps every integer range to the window of the stated
\* policy (hours: 1 min up to 1, 3 min up to 6, 5 min up to 24, else 15 min;
\* days: 5 min up to 1, 30 min up to 7, 2 h up to 30, else 6 h), and the COP
\* selector returns for every such range a window that is never coarser.
C14_WindowPolicy ==
    (WindowDone /\ IsIntegerRange(call.time_range)) =>
        LET policy == PolicyMinutes(RangeCount(call.time_range),
                                    RangeUnit(call.time_range))
        IN  /\ result.raised = "none"
            /\ result.value \in DOMAIN WindowMinutes
            /\ call.op = "_get_aggregation_window"
                  => WindowMinutes[result.value] = policy
            /\ call.op = "_get_cop_aggregation_window"
                  => WindowMinutes[result.value] <= policy

\* Witness of C14: for 30 days the COP selector returns 10 minutes, finer
\* than the 2 hours of the policy.
C14_Witness ==
    /\ WindowDone
    /\ call = [op |-> "_get_cop_aggregation_window",
               time_range |-> <<"3", "0", "d">>]
    /\ result = Returned("10m")
    /\ aggregation_window(call.time_range) = Returned("2h")

----------------------------------------------------------------------------
(* Properties of the error paths                                           *)

\* A handler that takes a time range has returned.
RangedDone ==
    pc = "done" /\ call.op \in {"calculate_energy_costs", "calculate_runtime_stats",
                                 "analyze_hot_water_cycles", "calculate_cop"}

\* A handler that queries the source has returned.
QueriedDone == RangedDone \/ EventsDone

\* What each handler returns when the source answers with no samples.
NoDataResult ==
    CASE call.op = "calculate_energy_costs" -> ZeroEnergy
      [] call.op = "calculate_runtime_stats" -> ZeroRuntime
      [] call.op = "analyze_hot_water_cycles" -> ZeroCycles
      [] call.op = "calculate_cop" -> EmptyDataFrame
      [] call.op = "get_event_log" -> <<>>

\* C15: a time range that is not an integer count of hours or days is
\* rejected with an InvalidRangeFormat error that reaches the caller of the
\* analysis operation; it is never replaced by a default window or by a
\* zeroed result.
C15_InvalidRangeSurfaces ==
    (RangedDone /\ ~IsIntegerRange(call.time_range)) =>
        result = Raised("InvalidRangeFormat")

\* C16: what a handler returns when the source's query raises or times out
\* can be told from what it returns when the query succeeds with no samples.
C16_FailureDistinct ==
    (QueriedDone /\ call.upstream = "raises") => result # NoDataResult

----------------------------------------------------------------------------
(* Properties of the threshold of the cycle detector                       *)

\* The analyses the cycle detector can be asked for: which handler, on
\* which window's data, with which threshold.
CycleAnalyses ==
    {[aggregation_window |-> "1m", min_minutes |-> MIN_CYCLE_DURATION_MINUTES]}
    \cup {[aggregation_window |-> aggregation_window(tr).value,
           min_minutes |-> MIN_CYCLE_DURATION_MINUTES_from_df] :
             tr \in {r \in RequestRanges : IsIntegerRange(r)}}

\* C17: the minimum-duration threshold follows the aggregation granularity
\* of the analysed series: 5 minutes on data aggregated at 1 minute, 10
\* minutes on data aggregated at 30 minutes, and of two analyses the one on
\* the finer window never uses the higher threshold.
C17_ThresholdFollowsWindow ==
    (CycleDone /\ call.aggregation_window \in DOMAIN WindowMinutes) =>
        /\ call.aggregation_window = "1m" => call.min_minutes = 5
        /\ call.aggregation_window = "30m" => call.min_minutes = 10
        /\ \A other \in CycleAnalyses :
              WindowMinutes[other.aggregation_window]
                    < WindowMinutes[call.aggregation_window]
                 => other.min_minutes <= call.min_minutes

----------------------------------------------------------------------------
(* Properties of the alarm status                                          *)

\* get_alarm_status has returned, both of its queries served.
AlarmDone ==
    /\ pc = "done" /\ call.op = "get_alarm_status"
    /\ call.upstream_latest = "returns" /\ call.upstream_alarm = "returns"

\* The alarm codes of the 7 days before the call.
WeekOfCodes ==
    {r \in bucket["alarm_code"] :
        call.now - 7 * 24 * 60 <= r.time /\ r.time <= call.now}

\* The samples since which the alarm code has been above 0 without a break
\* up to the newest sample; the earliest of them is when the current alarm
\* became active.
CurrentAlarm ==
    {r \in WeekOfCodes :
        \A q \in WeekOfCodes : q.time >= r.time => q.value > 0}

\* C18: when an alarm is active, alarm_time is the time at which the current
\* alarm first became active, looking back at most 7 days; when none is
\* active (alarm status and alarm code both not positive), alarm_time is
\* absent and is_alarm is false.
C18_AlarmTime ==
    AlarmDone =>
        /\ (result.is_alarm /\ CurrentAlarm # {}) =>
              /\ result.alarm_time # NaN
              /\ \A t \in result.alarm_time :
                    /\ t \in {r.time : r \in CurrentAlarm}
                    /\ \A r \in CurrentAlarm : t <= r.time
        /\ (result.alarm_status_raw <= 0 /\ result.alarm_code <= 0) =>
              /\ result.alarm_time = NaN
              /\ result.is_alarm = FALSE

----------------------------------------------------------------------------
(* Properties of repeated analyses                                         *)

----------------------------------------------------------------------------
(* Properties of the energy per cycle                                      *)

\* The accepted cycles: the pairs that last at least the threshold.
AcceptedPairs ==
    SelectSeq(locals.pairs, LAMBDA p : p[2] - p[1] >= call.min_minutes)

\* The energy integrator on the power samples from start_time to end_time,
\* both included, in watt-minutes.
SliceEnergy(p) ==
    HeldSincePrevious({r \in Power : p[1] <= r.time /\ r.time <= p[2]})

\* C20: avg_energy_per_cycle_kwh is the mean over exactly the accepted
\* cycles counted in total_cycles: every accepted cycle contributes one
\* energy value, the energy integrator applied to the power samples with
\* start_time <= time <= end_time, so the number of energy values averaged
\* equals total_cycles.
C20_EnergyPerCycle ==
    (CycleDone /\ locals.exit = "summary") =>
        /\ result.total_cycles = Len(AcceptedPairs)
        /\ Len(locals.cycle_energies) = result.total_cycles
        /\ locals.cycle_energies =
              [i \in 1..Len(AcceptedPairs) |-> SliceEnergy(AcceptedPairs[i])]
        /\ result.avg_energy_per_cycle_kwh
              \in RoundSet(SumSeq(locals.cycle_energies), 600 * result.total_cycles)

----------------------------------------------------------------------------
(* Properties of the cycle rate and of the cycles' order                   *)

\* The handler analysed the valve series of the bucket: the source answered
\* and a window could be chosen for the time range.
CycleServed ==
    /\ CycleDone
    /\ call.op = "analyze_hot_water_cycles" => call.upstream = "returns"
    /\ call.op = "analyze_hot_water_cycles_from_df"
          => aggregation_window(call.time_range).raised = "none"

\* max_time - min_time of the valve series, in minutes.
ValveSpan == IF Valve = {} THEN 0 ELSE SpanOf(Valve)

\* C21: cycles_per_day is the number of valid cycles divided by the true
\* elapsed span of the valve series in days, (max_time - min_time) / 86400,
\* whatever the nominal time range asked for, and 0 when that span is 0.
\* The returned field is that quotient rounded to one decimal, held in
\* tenths: it differs from 10 * cycles * 1440 / span by at most one half.
C21_CyclesPerDay ==
    CycleServed =>
        /\ ValveSpan = 0 => result.cycles_per_day = 0
        /\ ValveSpan > 0 =>
              2 * Abs(result.cycles_per_day * ValveSpan
                        - 10 * result.total_cycles * 1440) <= ValveSpan

\* Witness of C21: two valid cycles in a series spanning 22 minutes, asked
\* for with the range '1h': 130.9 cycles per day.
C21_Witness ==
    /\ CycleServed
    /\ call.time_range = <<"1", "h">>
    /\ ValveSpan = 22
    /\ result.total_cycles = 2
    /\ result.cycles_per_day = 1309

\* The cycle starts the loop went through, with and without a closing 0.
DetectedStarts ==
    {locals.pairs[i][1] : i \in 1..Len(locals.pairs)}
        \cup SeqRange(locals.unterminated)

\* C22: the complete cycles never overlap: the end paired with a cycle start
\* is strictly earlier than every later cycle start, so no two cycles share
\* an end sample, and every cycle ends after it starts.
C22_NoOverlap ==
    CycleServed =>
        /\ \A i \in 1..Len(locals.pairs) :
              /\ locals.pairs[i][2] > locals.pairs[i][1]
              /\ \A later \in DetectedStarts :
                    later > locals.pairs[i][1] => locals.pairs[i][2] < later
        /\ \A i, j \in 1..Len(locals.pairs) :
              i # j => locals.pairs[i][2] # locals.pairs[j][2]

\* Witness of C22: two complete cycles back to back, the second starting at
\* the sample after the one that ended the first.
C22_Witness ==
    /\ CycleServed
    /\ locals.pairs = << <<1, 11>>, <<12, 22>> >>

----------------------------------------------------------------------------
(* Properties of the valve events                                          *)

\* The detected cycle events, in the order they were detected, which is the
\* time order of the valve's samples.
CycleEvents ==
    SelectSeq(locals.events,
              LAMBDA e : e.event \in {"Varmvattencykel START",
                                       "Varmvattencykel STOPP"})

\* The 0->1 transitions of the valve series.
Transitions == {r \in Valve : IsTransition(r)}

\* C23: on a valve series of zeros and ones the 'cycle start' and 'cycle
\* stop' events strictly alternate in time order, and there are as many
\* 'cycle start' events as 0->1 transitions the cycle detector finds on the
\* same series.
C23_StartStopAlternate ==
    /\ EventsDone =>
          /\ \A i \in 1..(Len(CycleEvents) - 1) :
                /\ CycleEvents[i].time < CycleEvents[i + 1].time
                /\ CycleEvents[i].event # CycleEvents[i + 1].event
          /\ Cardinality({i \in 1..Len(CycleEvents) :
                             CycleEvents[i].event = "Varmvattencykel START"})
                = Cardinality(Transitions)
    /\ CycleDone => locals.num_cycles = Cardinality(Transitions)

\* Witness of C23: the valve reads 0, 1, 1, 0, 1, 0: start, stop, start and
\* stop are detected, nothing at the second 1.
C23_Witness ==
    /\ EventsDone
    /\ ValuesOf("switch_valve_status") = <<0, 1, 1, 0, 1, 0>>
    /\ [i \in 1..Len(CycleEvents) |-> CycleEvents[i].time] = <<1, 3, 4, 5>>
    /\ Uncut
    /\ Len(result) = 4


====
